---- MODULE Spec2Model ----
(***************************************************************************)
(* Model of src/final.py: ModerationSystem (check_input, moderate_output)  *)
(* and AIChat.send_message.  A Python string is a sequence of characters,  *)
(* each written as a TLA+ string: "k", "[", and "U+0130" for LATIN CAPITAL *)
(* LETTER I WITH DOT ABOVE, "U+0307" for COMBINING DOT ABOVE.  Lowercasing,*)
(* substring search and the regular-expression substitution are computed   *)
(* character by character.                                                 *)
(***************************************************************************)
EXTENDS Integers, Sequences, FiniteSets, TLC

VARIABLES
    BANNED_KEYWORDS,  \* module-level list handed to ModerationSystem(...)
    banned_keywords,  \* self.banned_keywords of the moderator
    pc,               \* "idle", "calling" (inside requests.post), "done"
    op,               \* the entry point of the invocation in progress
    text,             \* the argument: text / user_prompt
    verdict,          \* (is_safe, reason) returned by check_input
    redaction,        \* (moderated_text, was_modified) of moderate_output
    prev,             \* the redaction whose text was passed back in
    response,         \* what the external call produced
    result,           \* the dictionary returned by send_message
    api_calls,        \* requests.post calls made by this invocation
    earlier           \* TRUE once an earlier invocation has returned

vars == <<BANNED_KEYWORDS, banned_keywords, pc, op, text, verdict, redaction,
          prev, response, result, api_calls, earlier>>

-----------------------------------------------------------------------------
(* Bounds of the model *)

MaxTerms == 2
MaxTextLen == 3
MaxPrefixLen == 1
MaxPromptLen == 1
MaxReplyLen == 1

\* Characters of the texts: a letter in both cases, a character of the
\* marker, and the letter whose lowercase is two characters
Alphabet == {"k", "K", "[", "U+0130"}

\* Raw keywords a vocabulary is drawn from (all non-empty): a plain letter
\* given in upper case, a letter that texts hold only inside the marker, a
\* keyword ending like the marker begins, and U+0130
RawTerms == { <<"K">>, <<"t">>, <<"k", "[">>, <<"U+0130">> }

Strings(n) == UNION {[1..m -> Alphabet] : m \in 0..n}

Vocabularies == UNION {[1..m -> RawTerms] : m \in 0..MaxTerms}

-----------------------------------------------------------------------------
(* Strings *)

\* The lowercase of one character under Python's simple case mapping
\* (unicodedata's tolower), on the characters the model uses.  This is the
\* mapping re.IGNORECASE compares characters with.
SimpleLower(c) ==
    CASE c = "K" -> "k"
      [] c = "D" -> "d"
      [] c = "H" -> "h"
      [] c = "R" -> "r"
      [] c = "E" -> "e"
      [] c = "A" -> "a"
      [] c = "C" -> "c"
      [] c = "T" -> "t"
      [] c = "U+0130" -> "i"
      [] OTHER -> c

\* str.lower() of one character: the full case mapping, under which U+0130
\* becomes the two characters "i" U+0307
LowerChar(c) ==
    IF c = "U+0130" THEN <<"i", "U+0307">> ELSE <<SimpleLower(c)>>

\* str.lower(): the concatenation of the characters' lowercase
RECURSIVE LowerStr(_)
LowerStr(s) ==
    IF Len(s) = 0 THEN <<>>
    ELSE IF Len(s) = 1 THEN LowerChar(s[1])
    ELSE LET h == Len(s) \div 2
         IN  LowerStr(SubSeq(s, 1, h)) \o LowerStr(SubSeq(s, h + 1, Len(s)))

\* needle in hay
Contains(needle, hay) ==
    \E i \in 0..(Len(hay) - Len(needle)) :
        SubSeq(hay, i + 1, i + Len(needle)) = needle

SENSITIVE_PATTERNS ==
    << <<"h","o","w"," ","t","o"," ","m","a","k","e">>,
       <<"h","o","w"," ","d","o"," ","i">>,
       <<"t","e","a","c","h"," ","m","e"," ","t","o">>,
       <<"h","e","l","p"," ","m","e">>,
       <<"i","n","s","t","r","u","c","t","i","o","n","s"," ","f","o","r">>,
       <<"g","u","i","d","e"," ","t","o">>,
       <<"s","t","e","p","s"," ","t","o">> >>

MARKER == <<"[", "R", "E", "D", "A", "C", "T", "E", "D", "]">>

\* Texts that carry a sensitive phrase, as typed by a user
Phrases ==
    { SENSITIVE_PATTERNS[4], SENSITIVE_PATTERNS[6],
      <<"H","e","l","p"," ","m","e">> }

Texts == Strings(MaxTextLen)
CheckTexts == Texts \cup {t \o p : t \in Strings(MaxPrefixLen), p \in Phrases}
Prompts == Strings(MaxPromptLen) \cup Phrases
Replies == Strings(MaxReplyLen)

-----------------------------------------------------------------------------
(* ModerationSystem *)

\* __init__: [keyword.lower() for keyword in banned_keywords]
NormalizeKeyword(keyword) == LowerStr(keyword)

ModerationSystemInit(keywords) ==
    [i \in 1..Len(keywords) |-> NormalizeKeyword(keywords[i])]

ProhibitedReason(keyword) ==
    [msg |-> "Input contains prohibited content: '<keyword>'", keyword |-> keyword]
HarmfulReason ==
    [msg |-> "Input contains potentially harmful request", keyword |-> <<>>]
PassedReason ==
    [msg |-> "Input passed moderation", keyword |-> <<>>]

\* [variant] the test is made on the text as typed, not on text_lower
InputMatch_CaseSensitive(keyword, txt, text_lower) == Contains(keyword, txt)

\* line 45: if keyword in text_lower
InputMatch(keyword, txt, text_lower) == Contains(keyword, text_lower)

\* [variant] the loop keeps scanning and reports the last keyword that matches
FirstPass_LastMatch(kws, txt, text_lower, i) ==
    LET hits == {j \in i..Len(kws) : Contains(kws[j], text_lower)}
    IN  IF hits = {} THEN 0 ELSE CHOOSE j \in hits : \A h \in hits : h <= j

\* lines 44-46: index of the first keyword the first loop returns on, 0 if none
RECURSIVE FirstPass(_, _, _, _)
FirstPass(kws, txt, text_lower, i) ==
    IF i > Len(kws) THEN 0
    ELSE IF InputMatch(kws[i], txt, text_lower) THEN i
    ELSE FirstPass(kws, txt, text_lower, i + 1)

\* [variant] a sensitive pattern alone is enough to reject
SecondPass_PatternOnly(kws, text_lower) ==
    \E p \in 1..Len(SENSITIVE_PATTERNS) :
        Contains(SENSITIVE_PATTERNS[p], text_lower)

\* lines 49-53: the nested loops over patterns and keywords
SecondPass(kws, text_lower) ==
    \E p \in 1..Len(SENSITIVE_PATTERNS) :
        /\ Contains(SENSITIVE_PATTERNS[p], text_lower)
        /\ \E k \in 1..Len(kws) : Contains(kws[k], text_lower)

check_input(kws, txt) ==
    LET text_lower == LowerStr(txt)
        hit == FirstPass(kws, txt, text_lower, 1)
    IN  IF hit # 0
        THEN [safe |-> FALSE, reason |-> ProhibitedReason(kws[hit])]
        ELSE IF SecondPass(kws, text_lower)
        THEN [safe |-> FALSE, reason |-> HarmfulReason]
        ELSE [safe |-> TRUE, reason |-> PassedReason]

\* re.compile(re.escape(keyword), re.IGNORECASE) matching at position p: the
\* pattern is the keyword's characters as literals, each compared with one
\* character of the text under the simple case mapping
MatchAt(keyword, txt, p) ==
    /\ p + Len(keyword) - 1 <= Len(txt)
    /\ \A j \in 1..Len(keyword) :
          SimpleLower(txt[p + j - 1]) = SimpleLower(keyword[j])

\* the start of the leftmost match at or after position p, 0 if there is none
NextMatch(keyword, txt, p) ==
    LET starts == {q \in p..Len(txt) : MatchAt(keyword, txt, q)}
    IN  IF starts = {} THEN 0
        ELSE CHOOSE q \in starts : \A r \in starts : q <= r

\* pattern.sub("[REDACTED]", text) from position p on, for a non-empty pattern:
\* the text up to the leftmost match is copied, the match becomes the marker
\* and the search resumes after the matched span
RECURSIVE SubFrom(_, _, _)
SubFrom(keyword, txt, p) ==
    LET q == NextMatch(keyword, txt, p)
    IN  IF q = 0 THEN SubSeq(txt, p, Len(txt))
        ELSE SubSeq(txt, p, q - 1) \o MARKER
                 \o SubFrom(keyword, txt, q + Len(keyword))

\* the empty pattern matches before every character and at the end
RECURSIVE SubEmpty(_, _)
SubEmpty(txt, p) ==
    IF p > Len(txt) THEN MARKER
    ELSE MARKER \o <<txt[p]>> \o SubEmpty(txt, p + 1)

\* line 70-71
ReSub(keyword, txt) ==
    IF Len(keyword) = 0 THEN SubEmpty(txt, 1) ELSE SubFrom(keyword, txt, 1)

\* [variant] the test is made on moderated_text, not on its lowercase
OutputMatch_CaseSensitive(keyword, moderated_text) == Contains(keyword, moderated_text)

\* line 67: if keyword in moderated_text.lower()
OutputMatch(keyword, moderated_text) == Contains(keyword, LowerStr(moderated_text))

\* lines 66-72, from keyword i on
RECURSIVE ModerateLoop(_, _, _, _)
ModerateLoop(kws, i, moderated_text, was_modified) ==
    IF i > Len(kws)
    THEN [text |-> moderated_text, modified |-> was_modified]
    ELSE IF OutputMatch(kws[i], moderated_text)
         THEN ModerateLoop(kws, i + 1, ReSub(kws[i], moderated_text), TRUE)
         ELSE ModerateLoop(kws, i + 1, moderated_text, was_modified)

moderate_output(kws, txt) == ModerateLoop(kws, 1, txt, FALSE)

\* [variant] a call consumes the first keyword of the list
KeywordsAfterCall_Consumed(kws) == IF Len(kws) = 0 THEN kws ELSE Tail(kws)

\* the methods only read self.banned_keywords
KeywordsAfterCall(kws) == kws

-----------------------------------------------------------------------------
(* AIChat.send_message *)

None == [none |-> TRUE]

\* [variant] the verdict is ignored
InputGate_AlwaysOpen(v) == TRUE

\* line 96: if not is_safe: return {...}
InputGate(v) == v.safe

Blocked(reason) ==
    [status |-> "blocked",
     message |-> "Your input violated the moderation policy.",
     reason |-> reason,
     moderation |-> "input_blocked"]

ApiError(e) ==
    [status |-> "error",
     message |-> <<"API Error: ", e>>,
     moderation |-> "none"]

Moderated(moderated_message) ==
    [status |-> "moderated",
     message |-> moderated_message,
     moderation |-> "output_redacted",
     warning |-> "Response contained restricted content that was redacted"]

Success(moderated_message) ==
    [status |-> "success",
     message |-> moderated_message,
     moderation |-> "passed"]

\* an exception that leaves send_message
Raised(e) == [status |-> "raised", exception |-> e]

\* [variant] the redacted branch returns ai_message, not moderated_message
OutputStage_RawMessage(kws, ai_message) ==
    LET r == moderate_output(kws, ai_message)
    IN  IF r.modified THEN Moderated(ai_message) ELSE Success(r.text)

\* lines 145-162
OutputStage(kws, ai_message) ==
    LET r == moderate_output(kws, ai_message)
    IN  IF r.modified THEN Moderated(r.text) ELSE Success(r.text)

\* What requests.post / raise_for_status / response.json() / the subscripts
\* of line 134 can produce
Responses ==
    {[kind |-> "ok", content |-> r] : r \in Replies}
    \cup {[kind |-> k, content |-> <<>>] :
            k \in {"request_exception", "undecodable_body", "missing_field"}}

-----------------------------------------------------------------------------
(* State machine *)

Init ==
    /\ BANNED_KEYWORDS \in Vocabularies
    /\ banned_keywords = ModerationSystemInit(BANNED_KEYWORDS)
    /\ pc = "idle"
    /\ op = "none"
    /\ text = <<>>
    /\ verdict = None
    /\ redaction = None
    /\ prev = None
    /\ response = None
    /\ result = None
    /\ api_calls = 0
    /\ earlier = FALSE

\* moderator.check_input(t)
CallCheckInput(t) ==
    /\ pc = "idle"
    /\ pc' = "done"
    /\ op' = "check_input"
    /\ text' = t
    /\ verdict' = check_input(banned_keywords, t)
    /\ banned_keywords' = KeywordsAfterCall(banned_keywords)
    /\ UNCHANGED <<BANNED_KEYWORDS, redaction, prev, response, result, api_calls, earlier>>

\* moderator.moderate_output(t)
CallModerateOutput(t) ==
    /\ pc = "idle"
    /\ pc' = "done"
    /\ op' = "moderate_output"
    /\ text' = t
    /\ redaction' = moderate_output(banned_keywords, t)
    /\ banned_keywords' = KeywordsAfterCall(banned_keywords)
    /\ UNCHANGED <<BANNED_KEYWORDS, verdict, prev, response, result, api_calls, earlier>>

\* moderator.moderate_output(m) with m the text the previous call returned
ModerateAgain ==
    /\ pc = "done"
    /\ op = "moderate_output"
    /\ op' = "moderate_again"
    /\ prev' = redaction
    /\ redaction' = moderate_output(banned_keywords, redaction.text)
    /\ banned_keywords' = KeywordsAfterCall(banned_keywords)
    /\ UNCHANGED <<BANNED_KEYWORDS, pc, text, verdict, response, result, api_calls, earlier>>

\* send_message up to the return of line 97 or the requests.post of line 123
SendMessage(user_prompt) ==
    /\ pc = "idle"
    /\ op' = "send_message"
    /\ text' = user_prompt
    /\ verdict' = check_input(banned_keywords, user_prompt)
    /\ banned_keywords' = KeywordsAfterCall(banned_keywords)
    /\ IF ~InputGate(verdict')
       THEN /\ result' = Blocked(verdict'.reason)
            /\ pc' = "done"
            /\ api_calls' = 0
       ELSE /\ result' = None
            /\ pc' = "calling"
            /\ api_calls' = 1
    /\ UNCHANGED <<BANNED_KEYWORDS, redaction, prev, response, earlier>>

\* send_message from the return of requests.post to its own return
ApiRespond(r) ==
    /\ pc = "calling"
    /\ pc' = "done"
    /\ response' = r
    /\ \/ /\ r.kind = "ok"
          /\ redaction' = moderate_output(banned_keywords, r.content)
          /\ result' = OutputStage(banned_keywords, r.content)
          /\ banned_keywords' = KeywordsAfterCall(banned_keywords)
       \/ /\ r.kind = "request_exception"
          /\ result' = ApiError(r.kind)
          /\ UNCHANGED <<redaction, banned_keywords>>
       \/ \* response.json() raises requests.exceptions.JSONDecodeError, which
          \* is a RequestException (requests 2.27 and later)
          /\ r.kind = "undecodable_body"
          /\ result' = ApiError(r.kind)
          /\ UNCHANGED <<redaction, banned_keywords>>
       \/ \* ai_response['choices'][0]['message']['content'] raises KeyError
          /\ r.kind = "missing_field"
          /\ result' = Raised("KeyError")
          /\ UNCHANGED <<redaction, banned_keywords>>
    /\ UNCHANGED <<BANNED_KEYWORDS, op, text, verdict, prev, api_calls, earlier>>

\* the invocation's frame is gone; the moderator stays
Return ==
    /\ pc = "done"
    /\ pc' = "idle"
    /\ op' = "none"
    /\ text' = <<>>
    /\ verdict' = None
    /\ redaction' = None
    /\ prev' = None
    /\ response' = None
    /\ result' = None
    /\ api_calls' = 0
    /\ earlier' = TRUE
    /\ UNCHANGED <<BANNED_KEYWORDS, banned_keywords>>

Next ==
    \/ \E t \in CheckTexts : CallCheckInput(t)
    \/ \E t \in Texts : CallModerateOutput(t)
    \/ ModerateAgain
    \/ \E p \in Prompts : SendMessage(p)
    \/ \E r \in Responses : ApiRespond(r)
    \/ Return

Spec == Init /\ [][Next]_vars

-----------------------------------------------------------------------------
(* Vocabulary of the properties, stated without the operators above *)

\* the (lowercase) term occurs as a contiguous substring of the lowercased
\* text
Occurs(term, txt) ==
    LET low == LowerStr(txt)
    IN  \E off \in 0..(Len(low) - Len(term)) :
            \A j \in 1..Len(term) : low[off + j] = term[j]

AnyBanned(kws, txt) == \E i \in 1..Len(kws) : Occurs(kws[i], txt)

\* smallest index of a keyword that occurs in txt
FirstBanned(kws, txt) ==
    CHOOSE i \in 1..Len(kws) :
        /\ Occurs(kws[i], txt)
        /\ \A j \in 1..(i - 1) : ~Occurs(kws[j], txt)

HasSensitivePattern(txt) ==
    \E p \in 1..Len(SENSITIVE_PATTERNS) : Occurs(SENSITIVE_PATTERNS[p], txt)

\* the spans one replacement step removes: the characters of txt from p on
\* equal the term's up to case, and no earlier replaced span covers p
RECURSIVE Replaced(_, _, _)
Replaced(term, txt, p) ==
    /\ p >= 1
    /\ p + Len(term) - 1 <= Len(txt)
    /\ \A j \in 1..Len(term) :
          SimpleLower(txt[p + j - 1]) = SimpleLower(term[j])
    /\ \A q \in (p - Len(term) + 1)..(p - 1) : ~Replaced(term, txt, q)

InSpan(term, txt, p) ==
    \E q \in (p - Len(term) + 1)..p : Replaced(term, txt, q)

\* one step of the fold: spans become the marker, every other character stays
RECURSIVE StepFrom(_, _, _)
StepFrom(term, txt, p) ==
    IF p > Len(txt) THEN <<>>
    ELSE (IF Replaced(term, txt, p) THEN MARKER
          ELSE IF InSpan(term, txt, p) THEN <<>>
          ELSE <<txt[p]>>) \o StepFrom(term, txt, p + 1)

\* the text after the first n steps of the fold
RECURSIVE Fold(_, _, _)
Fold(kws, n, txt) ==
    IF n = 0 THEN txt ELSE StepFrom(kws[n], Fold(kws, n - 1, txt), 1)

SendDone == pc = "done" /\ op = "send_message"

\* a term that can meet the marker: inside it, around it, or across an edge
OverlapsMarker(term) ==
    LET m == LowerStr(MARKER)
        t == LowerStr(term)
    IN  \/ Contains(t, m)
        \/ Contains(m, t)
        \/ \E n \in 1..Len(t) :
              /\ n <= Len(m)
              /\ \/ SubSeq(t, 1, n) = SubSeq(m, Len(m) - n + 1, Len(m))
                 \/ SubSeq(t, Len(t) - n + 1, Len(t)) = SubSeq(m, 1, n)

-----------------------------------------------------------------------------
(* Properties *)

\* C1: in a send_message invocation the external call is made only after
\* check_input returned safe; an unsafe verdict gives Blocked with that
\* verdict's reason and no call; a safe verdict gives exactly one call, also
\* when the call failed.
C1_InputGate ==
    op = "send_message" =>
        /\ verdict = check_input(banned_keywords, text)
        /\ api_calls <= 1
        /\ api_calls = 1 <=> verdict.safe
        /\ ~verdict.safe =>
              /\ pc = "done"
              /\ result.status = "blocked"
              /\ result.reason = verdict.reason
              /\ api_calls = 0

C1_Witness ==
    /\ SendDone
    /\ result.status = "blocked"
    /\ api_calls = 0
    /\ AnyBanned(banned_keywords, text)

\* C2: send_message always returns one of Blocked, Error, Moderated, Success,
\* and every failure of the external call (malformed body and missing reply
\* field included) gives Error with a non-empty message.
C2_Total ==
    SendDone =>
        /\ result.status \in {"blocked", "error", "moderated", "success"}
        /\ (verdict.safe /\ response.kind # "ok") =>
              /\ result.status = "error"
              /\ Len(result.message) > 0

\* C3: when a banned term occurs in the lowercased text, check_input returns
\* safe=false with the prohibited-content reason naming the occurring term of
\* smallest index in the vocabulary.
C3_FirstMatchWins ==
    (pc = "done" /\ op = "check_input" /\ AnyBanned(banned_keywords, text)) =>
        verdict = [safe |-> FALSE,
                   reason |-> ProhibitedReason(
                       banned_keywords[FirstBanned(banned_keywords, text)])]

C3_Witness ==
    /\ pc = "done"
    /\ op = "check_input"
    /\ Len(banned_keywords) = 2
    /\ banned_keywords[1] # banned_keywords[2]
    /\ Occurs(banned_keywords[2], SubSeq(text, 1, 1))
    /\ ~Occurs(banned_keywords[1], SubSeq(text, 1, 1))
    /\ Occurs(banned_keywords[1], text)
    /\ verdict.reason.keyword = banned_keywords[1]

\* C4: when no banned term occurs case-insensitively in the text, check_input
\* returns safe=true with "Input passed moderation", with or without a
\* sensitive pattern in the text.
C4_CleanTextPasses ==
    (pc = "done" /\ op = "check_input" /\ ~AnyBanned(banned_keywords, text)) =>
        verdict = [safe |-> TRUE, reason |-> PassedReason]

C4_Witness ==
    /\ pc = "done"
    /\ op = "check_input"
    /\ Len(banned_keywords) > 0
    /\ HasSensitivePattern(text)
    /\ ~AnyBanned(banned_keywords, text)
    /\ verdict.safe

\* C5: moderate_output is the left-to-right fold of the replacement step over
\* the vocabulary; characters outside replaced spans keep case and order;
\* modified holds exactly when some step replaced something; an unmodified
\* result carries the input text.
C5_FoldOfReplacements ==
    (pc = "done" /\ op = "moderate_output") =>
        /\ redaction.text = Fold(banned_keywords, Len(banned_keywords), text)
        /\ redaction.modified <=>
              \E n \in 1..Len(banned_keywords) :
                  LET cur == Fold(banned_keywords, n - 1, text)
                  IN  \E p \in 1..Len(cur) : Replaced(banned_keywords[n], cur, p)
        /\ ~redaction.modified => redaction.text = text

\* C6: whenever no banned term meets the marker (the claim's "is a substring
\* of the marker", read as widely as it can be: inside it, around it or
\* across one of its edges, up to case), a second moderate_output on the
\* first one's output returns modified=false and the same text, and that
\* output holds no banned term.
C6_Idempotent ==
    (op = "moderate_again"
        /\ \A i \in 1..Len(banned_keywords) : ~OverlapsMarker(banned_keywords[i])) =>
        /\ ~redaction.modified
        /\ redaction.text = prev.text
        /\ ~AnyBanned(banned_keywords, prev.text)

\* C7: after a passed input check and a successful external call with reply
\* r, send_message returns Moderated with the redacted text and the warning
\* exactly when moderate_output(r) is modified, otherwise Success with r.
C7_OutputClassified ==
    (SendDone /\ verdict.safe /\ response.kind = "ok") =>
        LET m == moderate_output(banned_keywords, response.content)
        IN  IF m.modified
            THEN /\ result.status = "moderated"
                 /\ result.message = m.text
                 /\ result.warning =
                        "Response contained restricted content that was redacted"
            ELSE /\ result.status = "success"
                 /\ result.message = response.content

C7_Witness ==
    /\ SendDone
    /\ verdict.safe
    /\ response.kind = "ok"
    /\ result.status = "moderated"
    /\ result.message # response.content

\* C8: whatever was invoked before, the moderator's keyword list is the one
\* built at construction, and a send_message result is the one a freshly
\* constructed moderator gives for the same prompt and response.
C8_NoStateRetained ==
    LET fresh == ModerationSystemInit(BANNED_KEYWORDS)
    IN  /\ banned_keywords = fresh
        /\ SendDone =>
              /\ result.status = "blocked" <=> ~check_input(fresh, text).safe
              /\ result.status = "blocked" =>
                    result.reason = check_input(fresh, text).reason
              /\ (verdict.safe /\ response.kind = "ok") =>
                    result = OutputStage(fresh, response.content)

C8_Witness ==
    /\ earlier
    /\ SendDone
    /\ Len(banned_keywords) > 0
    /\ verdict.safe
    /\ response.kind = "ok"
    /\ result.status = "success"

\* C9: check_input never returns "Input contains potentially harmful
\* request": its verdict is either unsafe with a prohibited-content reason
\* naming a keyword, or safe with "Input passed moderation".
C9_SecondPassDead ==
    (pc = "done" /\ op = "check_input") =>
        /\ verdict.reason # HarmfulReason
        /\ \/ /\ ~verdict.safe
              /\ \E i \in 1..Len(banned_keywords) :
                    verdict.reason = ProhibitedReason(banned_keywords[i])
           \/ /\ verdict.safe
              /\ verdict.reason = PassedReason

C9_Witness ==
    /\ pc = "done"
    /\ op = "check_input"
    /\ HasSensitivePattern(text)
    /\ AnyBanned(banned_keywords, text)
    /\ text # LowerStr(text)
    /\ ~verdict.safe

\* C10: on every text, moderate_output reports modified exactly when
\* check_input reports unsafe, that is, exactly when a banned term occurs in
\* the original text.
C10_ModerationAgrees ==
    (pc = "done" /\ op = "moderate_output") =>
        /\ redaction.modified <=> ~check_input(banned_keywords, text).safe
        /\ redaction.modified <=> AnyBanned(banned_keywords, text)

C10_Witness ==
    /\ pc = "done"
    /\ op = "moderate_output"
    /\ redaction.modified
    /\ ~check_input(banned_keywords, text).safe
    /\ text # LowerStr(text)
    /\ redaction.text # text

====
